---- MODULE Spec2Model ----
(***************************************************************************)
(* Order settlement flow of the mattress_market backend: order creation    *)
(* (orders/serializers.py, orders/views.py), payment callback              *)
(* (orders/views.py), admin status update (orders/admin_views.py) and the  *)
(* read-only order lookup, over the tables declared in orders/models.py,   *)
(* site_config/models.py and products/models.py.  StoreSpec adds the       *)
(* back-office operations that delete an order, change or delete a catalog *)
(* variant and update the settings row.                                    *)
(*                                                                         *)
(* Money is a Decimal with two places; the model carries whole-naira       *)
(* amounts as integers.  Every HTTP request is a process that runs its     *)
(* handler step by step; steps of different requests interleave at the     *)
(* database accesses.                                                      *)
(***************************************************************************)
EXTENDS Integers, Sequences, FiniteSets, TLC

\* Number of HTTP requests served in one behaviour.
NumRequests == 2

\* Longest cart whose arithmetic is followed line by line.
MaxLines == 2

Requests == 1..NumRequests

None == "None"

(***************************************************************************)
(* State.                                                                  *)
(***************************************************************************)
VARIABLES
    orders,         \* committed OrderModel rows: pk -> row
    items,          \* committed OrderItemModel rows: order pk -> sequence
    variants,       \* committed ProductVariantModel rows: id -> price
    settingsTable,  \* committed SettingsModel rows, in pk order
    secretKeys,     \* providers whose secret key is set in django settings
    outbox,         \* confirmation emails delivered
    req,            \* the requests: handler position and local variables
    products,       \* committed ProductModel rows: slug -> view_count
    pricing         \* the arithmetic of one create() call, in tenths of a cent

vars == << orders, items, variants, settingsTable, secretKeys, outbox, req,
           products, pricing >>

\* State the order flow never writes.
outside == << products, pricing >>

(***************************************************************************)
(* Tables as declared by the models.                                       *)
(***************************************************************************)

\* Concrete columns of OrderModel (orders/models.py:32-49), without the pk.
OrderModelFields ==
    {"order_id", "user", "customer_name", "customer_email", "customer_phone",
     "shipping_address", "payment_method", "status", "total_amount",
     "created_at", "updated_at"}

\* Concrete columns of SettingsModel (site_config/models.py:31-34).
SettingsModelFields ==
    {"allow_pay_on_delivery", "allow_online_payment",
     "free_shipping_threshold", "terms_and_conditions"}

STATUS_CHOICES == {"pending", "processing", "shipped", "delivered", "cancelled"}

PAYMENT_CHOICES == {"pay_on_delivery", "online"}

\* hasattr(order, name) for an OrderModel instance: model fields only
\* (the reverse relation "items" and methods are not asked about).
OrderHasAttr(name) == name \in OrderModelFields

\* hasattr(settings_obj, name) for a SettingsModel instance.
SettingsHasAttr(name) == name \in SettingsModelFields

\* getattr(row, name, default) on a loaded row.
GetAttr(row, name, default) ==
    IF name \in DOMAIN row THEN row[name] ELSE default

\* The catalog as a request reads it: ProductVariantModel.price by id.
VariantPrice == variants

VariantIds == DOMAIN VariantPrice

RECURSIVE SumItems(_)
\* Sum over the items of an order of OrderItemModel.subtotal().
SumItems(its) ==
    IF its = << >> THEN 0
    ELSE Head(its).price * Head(its).quantity + SumItems(Tail(its))

(***************************************************************************)
(* Pure helpers of OrderCreateSerializer.                                  *)
(***************************************************************************)

\* A payload value: absent/None, a number, or something that does not parse.
Absent == [tag |-> "none", v |-> 0]

Num(n) == [tag |-> "num", v |-> n]

Junk == [tag |-> "junk", v |-> 0]

\* A result that is either a value or a raised exception.
Ok(n) == [ok |-> TRUE, v |-> n]

Raised == [ok |-> FALSE, v |-> 0]

\* SettingsModel.objects.first(): a sequence of at most one row.
SettingsFirst(table) == IF table = << >> THEN << >> ELSE << Head(table) >>

\* settings_obj.shipping_fee: an attribute read on a SettingsModel row.
ShippingFeeAttr(row) ==
    IF SettingsHasAttr("shipping_fee") /\ "shipping_fee" \in DOMAIN row
    THEN Ok(row.shipping_fee)
    ELSE Raised

\* OrderCreateSerializer._calculate_logistic_fee(subtotal).
calculate_logistic_fee(table, subtotal) ==
    LET settings_obj == SettingsFirst(table) IN
    IF settings_obj = << >> THEN Ok(0)
    ELSE IF /\ settings_obj[1].free_shipping_threshold # 0
            /\ subtotal >= settings_obj[1].free_shipping_threshold
         THEN Ok(0)
         ELSE ShippingFeeAttr(settings_obj[1])

\* ProductVariantModel.objects.get(id=variant_id), None when it does not exist.
LookupVariant(variant_id) ==
    IF variant_id \in VariantIds THEN variant_id ELSE None

\* qty = int(item.get('quantity', 1) or 1), 1 on any exception.
ItemQuantity(q) ==
    IF q.tag = "num" /\ q.v # 0 THEN q.v ELSE 1

\* Decimal(str(price)) if price is not None else None; None on exception.
ParsePayloadPrice(price) == IF price.tag = "num" THEN price ELSE Absent

\* The catalog price first, the payload price as the fallback.
ItemPriceCatalogFirst(price, product_variant) ==
    IF product_variant # None THEN VariantPrice[product_variant]
    ELSE IF ParsePayloadPrice(price).tag = "num" THEN ParsePayloadPrice(price).v
    ELSE 0

\* The unit price of a cart line (serializers.py:98-112).
ItemPrice(price, product_variant) ==
    LET parsed == ParsePayloadPrice(price) IN
    IF parsed.tag = "num" THEN parsed.v
    ELSE IF product_variant # None THEN VariantPrice[product_variant]
    ELSE 0

\* Fields of OrderCreateSerializer that is_valid() requires: the columns
\* without blank=True or a default (models.py:36-41).
RequiredContactFields ==
    {"customer_name", "customer_email", "customer_phone", "shipping_address"}

\* A validation that looks at the payment method only.
ValidationErrorsMethodOnly(data) ==
    IF data.payment_method \in PAYMENT_CHOICES THEN {} ELSE {"payment_method"}

\* serializer.errors after is_valid(): the fields that failed.
ValidationErrors(data) ==
    (IF data.payment_method \in PAYMENT_CHOICES THEN {} ELSE {"payment_method"})
    \cup (RequiredContactFields \ data.contact)

\* Decimal.quantize(Decimal('.01')) of an amount given in tenths of a cent,
\* in cents.  No rounding argument is passed and no context is set, so the
\* default context's ROUND_HALF_EVEN applies.
QuantizeCents(mills) ==
    LET q == mills \div 10
        r == mills % 10
    IN  IF r < 5 THEN q
        ELSE IF r > 5 THEN q + 1
        ELSE IF q % 2 = 0 THEN q ELSE q + 1

\* payment_required of the creation response (views.py:93-94).
PaymentRequired(payment_method) == payment_method = "online"

\* Model.save(update_fields=names): ValueError when a name is no column.
SaveUpdateFieldsOk(names) == names \subseteq OrderModelFields

\* Fields OrderSerializer declares (serializers.py:34-38), besides "id"/"items".
OrderSerializerFields ==
    {"order_id", "customer_name", "customer_email", "customer_phone",
     "shipping_address", "payment_method", "status", "logistic_price",
     "total_amount", "created_at", "updated_at"}

\* OrderSerializer(order).data: ImproperlyConfigured when a declared field
\* is neither a column nor an attribute of the model.
OrderSerializerOk == OrderSerializerFields \subseteq OrderModelFields

(***************************************************************************)
(* Pure helpers of PaymentCallbackView.                                    *)
(***************************************************************************)

\* The idempotency test of PaymentCallbackView.post (views.py:324).
AlreadyPaid(order) ==
    \/ GetAttr(order, "is_paid", FALSE) = TRUE
    \/ GetAttr(order, "payment_status", "") = "paid"

\* "if hasattr(order, name): order.name = value"
SetIfHasAttr(row, name, value) ==
    IF OrderHasAttr(name) THEN (name :> value) @@ row ELSE row

\* The attribute assignments of mark_paid_and_email (views.py:330-340).
MarkPaidFields(order, ref) ==
    LET r1 == SetIfHasAttr(order, "payment_reference",
                  IF ref \notin {None, ""} THEN ref
                  ELSE GetAttr(order, "payment_reference", ""))
        r2 == SetIfHasAttr(r1, "is_paid", TRUE)
        r3 == SetIfHasAttr(r2, "payment_status", "paid")
        r4 == SetIfHasAttr(r3, "status", "processing")
    IN  SetIfHasAttr(r4, "paid_at", "now")

\* The kobo amount compared with the naira total.
PaystackAmountUnscaled(amount, total_amount) == amount = total_amount

\* expected = int(order_amount_naira * 100); paystack_amount == expected.
PaystackAmountMatches(amount, total_amount) == amount = total_amount * 100

\* fw_amount == order_amount_naira, both Decimal, in naira.
FlutterwaveAmountMatches(amount, total_amount) == amount = total_amount

AmountMatches(provider, amount, total_amount) ==
    IF provider = "paystack" THEN PaystackAmountMatches(amount, total_amount)
    ELSE FlutterwaveAmountMatches(amount, total_amount)

\* A provider branch entered without looking at the secret key.
ProviderPathWithoutKey(provider, reference, keys) ==
    /\ provider \in {"paystack", "flutterwave"}
    /\ reference \notin {None, ""}

\* The guards of the two provider branches (views.py:358 and 381): the
\* provider is one of the two, its secret key is set and a reference came.
ProviderPathApplies(provider, reference, keys) ==
    /\ provider \in {"paystack", "flutterwave"}
    /\ provider \in keys
    /\ reference \notin {None, ""}

\* A trusted branch entered whatever the callback's status says.
TrustedSuccessAnyStatus(status_input) == TRUE

\* Line 353: the callback carries the trusted success flag.
TrustedSuccess(status_input) == status_input = "success"

\* A provider branch that saves the order before it asks the gateway.
NextStepMarkFirst(path) == "cb_mark"

\* Where the view goes once the path is chosen: the trusted branch calls
\* mark_paid_and_email at once (views.py:354); a provider branch calls the
\* gateway first (views.py:362, 385) and marks after its answer.
NextStep(path) == IF path = "trusted" THEN "cb_mark" ELSE "cb_verify"

\* A gateway failure answered like an unsuccessful transaction.
VerifyOutcomeErrorAsRefusal(provider, reply, total_amount) ==
    IF reply.kind # "success" THEN 400
    ELSE IF AmountMatches(provider, reply.amount, total_amount) THEN 200
    ELSE 400

\* The status a provider branch (views.py:357-400) ends with for the
\* gateway's answer: 502 when requests raises, 400 for an unsuccessful
\* transaction or another amount, 200 after mark_paid_and_email.
VerifyOutcome(provider, reply, total_amount) ==
    IF reply.kind = "error" THEN 502
    ELSE IF reply.kind # "success" THEN 400
    ELSE IF AmountMatches(provider, reply.amount, total_amount) THEN 200
    ELSE 400

\* What the email step leaves behind: send_order_confirmation inside the
\* caller's try/except.  outcome is what the mail machinery does.
NotifierOutcomes == {"delivered", "no_recipient", "raises"}

\* A notifier whose exception reaches the view.
NotifyUnguarded(outcome) ==
    [returned     |-> outcome = "delivered",
     delivered    |-> outcome = "delivered",
     propagated   |-> outcome = "raises"]

\* send_order_confirmation(order) as called from a view: its return value and
\* whether an exception leaves the caller's try block.
Notify(outcome) ==
    [returned     |-> outcome = "delivered",
     delivered    |-> outcome = "delivered",
     propagated   |-> FALSE]

(***************************************************************************)
(* Requests.                                                               *)
(***************************************************************************)
NoRow == [order_id |-> None]

NoReply == [kind |-> "none", amount |-> 0]

\* A request that has not arrived yet.
IdleReq ==
    [kind |-> "none", pc |-> "idle", resp |-> 0,
     pk |-> 0, order |-> NoRow,
     ref |-> None, provider |-> "", path |-> "none", reply |-> NoReply,
     marked |-> FALSE, mail |-> "none",
     cart |-> << >>, contact |-> {}, txItems |-> << >>, subtotal |-> 0,
     fee |-> 0, failed |-> "none", errors |-> {}, asked |-> None,
     seen |-> NoRow, payment_required |-> FALSE, caller |-> None,
     status_input |-> "", slug |-> None, view_count |-> 0]

\* Order rows written inside a transaction that has not ended yet.
PendingOrders ==
    [k \in {req[q].pk : q \in {x \in Requests :
                                 req[x].pc \in {"cr_items", "cr_save"}}} |->
        req[CHOOSE q \in Requests :
              req[q].pc \in {"cr_items", "cr_save"} /\ req[q].pk = k].order]

\* Reads that also return uncommitted rows.
DirtyVisibleOrders == PendingOrders @@ orders

\* Rows other connections can read: what is committed.  Rows written inside
\* "with transaction.atomic()" (serializers.py:75) stay with their request
\* until the block exits.
VisibleOrders == orders

\* OrderModel.objects.get(order_id=oid): the pk found, 0 for DoesNotExist.
PkOf(oid) ==
    IF \E k \in DOMAIN VisibleOrders : VisibleOrders[k].order_id = oid
    THEN CHOOSE k \in DOMAIN VisibleOrders : VisibleOrders[k].order_id = oid
    ELSE 0

\* The orders table when the server starts: one unpaid online order with its
\* two items, total 25000.  No endpoint of this code commits a new order (the
\* final save of create() names a column the model does not have), so the
\* orders that callbacks, admin updates and lookups act on are rows already
\* in the table.
SeedItems ==
    << [product_variant |-> "A", product_name |-> "Foam", size |-> "6x6",
        price |-> 5000, quantity |-> 2],
       [product_variant |-> "B", product_name |-> "Spring", size |-> "6x6",
        price |-> 15000, quantity |-> 1] >>

SeedOrder ==
    [order_id |-> "MM100001", user |-> "u1", payment_method |-> "online",
     status |-> "pending", total_amount |-> 25000]

\* Deployments the server may start in: the settings table and the provider
\* secret keys configured in django settings.
Deployments ==
    { [settings |-> << >>, keys |-> {"paystack", "flutterwave"}],
      [settings |-> << [free_shipping_threshold |-> 0] >>, keys |-> {}],
      [settings |-> << [free_shipping_threshold |-> 20000] >>,
       keys |-> {"paystack", "flutterwave"}],
      [settings |-> << [free_shipping_threshold |-> 30000] >>,
       keys |-> {"paystack"}] }

SeedOrderTable == (1 :> SeedOrder)

\* The products when the server starts: one product, not viewed yet.
SeedProducts == [foam |-> 0]

\* No create() arithmetic under way.
NoPricing == [pc |-> "none"]

\* The catalog when the server starts: two variants and their prices.
SeedVariants == [A |-> 5000, B |-> 15000]

Init ==
    /\ orders = SeedOrderTable
    /\ items = [k \in DOMAIN SeedOrderTable |-> SeedItems]
    /\ variants = SeedVariants
    /\ \E d \in Deployments :
          /\ settingsTable = d.settings
          /\ secretKeys = d.keys
    /\ outbox = {}
    /\ req = [p \in Requests |-> IdleReq]
    /\ products = SeedProducts
    /\ pricing = NoPricing

\* Requests are numbered in the order they arrive.
Arrives(p) ==
    /\ req[p].pc = "idle"
    /\ \A q \in Requests : q < p => req[q].pc # "idle"

\* The request answers with an HTTP status; its local variables die, the
\* record keeps what the request did.
Respond(p, code, r) ==
    req' = [req EXCEPT ![p] =
              [IdleReq EXCEPT !.kind = r.kind, !.pc = "done", !.resp = code,
                              !.pk = r.pk, !.path = r.path,
                              !.provider = r.provider, !.reply = r.reply,
                              !.marked = r.marked, !.mail = r.mail,
                              !.failed = r.failed, !.errors = r.errors,
                              !.asked = r.asked, !.caller = r.caller,
                              !.payment_required = r.payment_required,
                              !.seen = r.seen, !.slug = r.slug]]

(***************************************************************************)
(* PaymentCallbackView.post                                                *)
(***************************************************************************)
CallbackInputs ==
    [order_id  : {"MM100001", "MM999999", None},
     reference : {"REF1", None},
     status    : {"success", ""},
     provider  : {"paystack", "flutterwave", ""}]

\* OrderModel.objects.filter(payment_reference=ref).first(): the pk found,
\* 0 when no row matches.
PkByReference(ref) ==
    LET hits == { k \in DOMAIN VisibleOrders :
                    GetAttr(VisibleOrders[k], "payment_reference", "") = ref }
    IN  IF hits = {} THEN 0 ELSE CHOOSE k \in hits : \A j \in hits : k <= j

\* Lines 299-355 up to the first database write or network call: parse,
\* load the order, the already-paid test and the choice of path.
CallbackLoad(p) ==
    \E data \in CallbackInputs :
      LET r0 == [req[p] EXCEPT !.kind = "callback", !.asked = data.order_id]
          k  == IF data.order_id # None THEN PkOf(data.order_id)
                ELSE PkByReference(data.reference)
      IN
      /\ Arrives(p)
      /\ UNCHANGED << orders, items, variants, settingsTable, secretKeys,
                      outbox, outside >>
      /\ IF data.order_id = None /\ data.reference = None
         THEN Respond(p, 400, r0)
         ELSE IF data.order_id = None /\ ~OrderHasAttr("payment_reference")
         THEN \* filter() on a name that is no column: FieldError, not caught
              Respond(p, 500, r0)
         ELSE IF k = 0
         THEN Respond(p, 404, r0)
         ELSE
           LET r1 == [r0 EXCEPT !.pk = k, !.order = VisibleOrders[k]] IN
           IF AlreadyPaid(VisibleOrders[k])
           THEN Respond(p, 200, r1)
           ELSE IF TrustedSuccess(data.status)
           THEN req' = [req EXCEPT ![p] =
                          [r1 EXCEPT !.pc = NextStep("trusted"),
                             !.path = "trusted",
                             !.status_input = data.status,
                             !.ref = IF data.reference # None
                                     THEN data.reference
                                     ELSE GetAttr(VisibleOrders[k],
                                                  "payment_reference", "")]]
           ELSE IF ProviderPathApplies(data.provider, data.reference,
                                       secretKeys)
           THEN req' = [req EXCEPT ![p] =
                          [r1 EXCEPT !.pc = NextStep("provider"),
                                     !.path = "provider",
                                     !.status_input = data.status,
                                     !.provider = data.provider,
                                     !.ref = data.reference]]
           ELSE Respond(p, 400, r1)

\* What the provider's verify endpoint may answer for an order total.
GatewayReplies(total_amount) ==
    { [kind |-> "error", amount |-> 0], [kind |-> "unsuccessful", amount |-> 0] }
    \cup { [kind |-> "success", amount |-> a] :
             a \in {total_amount, total_amount * 100} }

\* requests.get(...verify...) and the checks on its payload (lines 357-400).
CallbackVerify(p) ==
    /\ req[p].pc = "cb_verify"
    /\ UNCHANGED << orders, items, variants, settingsTable, secretKeys,
                    outbox, outside >>
    /\ \E reply \in GatewayReplies(req[p].order.total_amount) :
         LET r1   == [req[p] EXCEPT !.reply = reply]
             code == VerifyOutcome(req[p].provider, reply,
                                   req[p].order.total_amount)
         IN
         IF code = 200
         THEN req' = [req EXCEPT ![p] = [r1 EXCEPT !.pc = "cb_mark"]]
         ELSE Respond(p, code, r1)

\* A save that writes nothing.
SaveRowDropped(k, row) == orders

\* order.save(): every column of the loaded instance is written back.
SaveRow(k, row) == (k :> row) @@ orders

\* mark_paid_and_email, lines 329-341: set the attributes and save.
CallbackMark(p) ==
    LET row == MarkPaidFields(req[p].order, req[p].ref) IN
    /\ req[p].pc = "cb_mark"
    /\ orders' = SaveRow(req[p].pk, row)
    /\ req' = [req EXCEPT ![p] =
                 [@ EXCEPT !.pc = "cb_email", !.order = row, !.marked = TRUE]]
    /\ UNCHANGED << items, variants, settingsTable, secretKeys,
                    outbox, outside >>

\* mark_paid_and_email, lines 346-350, and the response that follows.
CallbackEmail(p) ==
    /\ req[p].pc = "cb_email"
    /\ UNCHANGED << orders, items, variants, settingsTable,
                    secretKeys, outside >>
    /\ \E outcome \in NotifierOutcomes :
         LET n == Notify(outcome) IN
         /\ outbox' = IF n.delivered
                      THEN outbox \cup {[order_id |-> req[p].order.order_id,
                                         via |-> "payment", by |-> p]}
                      ELSE outbox
         /\ Respond(p, IF n.propagated THEN 500 ELSE 200,
                    [req[p] EXCEPT !.mail = outcome])

(***************************************************************************)
(* OrderCreateView.post and OrderCreateSerializer.create                   *)
(***************************************************************************)

\* Order ids OrderModel.save may draw (models.py:54), two of the range.
OrderIdPool == {"MM100001", "MM100002"}

\* Cart lines: the variant reference, the payload's quantity and price, and
\* whether OrderItemModel.objects.create(**item) accepts the line.
Line(variant_id, quantity, price, insertable) ==
    [product_variant |-> variant_id, product_name |-> "Foam", size |-> "6x6",
     quantity |-> quantity, price |-> price, insertable |-> insertable]

Cart1 == << Line("A", Num(2), Absent, TRUE), Line("B", Num(1), Absent, TRUE) >>

Cart2 == << Line("A", Num(1), Num(100), TRUE) >>

Cart3 == << Line("X", Num(1), Num(700), TRUE), Line("X", Absent, Junk, TRUE) >>

Cart4 == << Line("A", Num(2), Absent, TRUE), Line("B", Num(1), Absent, FALSE) >>

\* A payload with every contact field, and one without the email address.
FullContact == RequiredContactFields

NoEmailContact == RequiredContactFields \ {"customer_email"}

CreateInputs ==
    { [payment_method |-> "online", cart |-> Cart1, contact |-> FullContact],
      [payment_method |-> "cash", cart |-> Cart1, contact |-> FullContact],
      [payment_method |-> "online", cart |-> Cart1,
       contact |-> NoEmailContact],
      [payment_method |-> "pay_on_delivery", cart |-> Cart2,
       contact |-> FullContact],
      [payment_method |-> "online", cart |-> Cart3, contact |-> FullContact],
      [payment_method |-> "pay_on_delivery", cart |-> Cart4,
       contact |-> FullContact] }

InFlightCreate(q) == req[q].pc \in {"cr_items", "cr_save"}

\* The pk the database hands to the order row a request inserts.
NewPk(p) == p + Cardinality(DOMAIN SeedOrderTable)

\* Every write committed as it is made, whatever the exit.
AutoCommitExit(normal, table, written) == written @@ table

\* Leaving "with transaction.atomic()": the rows written in the block are
\* committed on a normal exit and dropped when an exception leaves it.
AtomicExit(normal, table, written) ==
    IF normal THEN written @@ table ELSE table

\* An order_id column without the unique index.
OrderIdNeverTaken(table, oid) == FALSE

\* order_id is unique=True (models.py:32): an insert whose order_id is that
\* of a row of the table raises IntegrityError.
OrderIdTaken(table, oid) == \E k \in DOMAIN table : table[k].order_id = oid

\* Lines 76-89 of the view and 72-77 of create: validation, then the order
\* row is inserted with the temporary total inside the transaction.
CreateBegin(p) ==
    /\ Arrives(p)
    /\ UNCHANGED << orders, items, variants, settingsTable, secretKeys,
                    outbox, outside >>
    /\ \E data \in CreateInputs, oid \in OrderIdPool :
         LET r0 == [req[p] EXCEPT !.kind = "create"] IN
         IF ValidationErrors(data) # {}
         THEN Respond(p, 400, [r0 EXCEPT !.failed = "validate",
                                         !.errors = ValidationErrors(data)])
         ELSE IF OrderIdTaken(orders, oid)
         THEN \* unique=True on order_id: IntegrityError
              Respond(p, 500, [r0 EXCEPT !.failed = "insert"])
         ELSE /\ \A q \in Requests \ {p} :
                    InFlightCreate(q) => req[q].order.order_id # oid
              /\ req' = [req EXCEPT ![p] =
                           [r0 EXCEPT !.pc = "cr_items", !.pk = NewPk(p),
                              !.cart = data.cart, !.contact = data.contact,
                              !.order = [order_id |-> oid, user |-> None,
                                         payment_method |-> data.payment_method,
                                         status |-> "pending",
                                         total_amount |-> 0]]]

\* The cart line the loop over items_data is at.
NextLine(r) == r.cart[Len(r.txItems) + 1]

\* One turn of the loop over items_data (serializers.py:81-130).
CreateItem(p) ==
    /\ req[p].pc = "cr_items"
    /\ Len(req[p].txItems) < Len(req[p].cart)
    /\ UNCHANGED << variants, settingsTable, secretKeys, outbox, outside >>
    /\ LET item            == NextLine(req[p])
           product_variant == LookupVariant(item.product_variant)
           qty             == ItemQuantity(item.quantity)
           price           == ItemPrice(item.price, product_variant)
       IN
       IF ~item.insertable
       THEN /\ orders' = AtomicExit(FALSE, orders, req[p].pk :> req[p].order)
            /\ items' = AtomicExit(FALSE, items, req[p].pk :> req[p].txItems)
            /\ Respond(p, 500, [req[p] EXCEPT !.failed = "item"])
       ELSE /\ UNCHANGED << orders, items >>
            /\ req' = [req EXCEPT ![p] =
                         [@ EXCEPT !.subtotal = @ + price * qty,
                                   !.txItems = Append(@,
                                       [product_variant |-> product_variant,
                                        product_name |-> item.product_name,
                                        size |-> item.size,
                                        price |-> price, quantity |-> qty])]]

\* After the loop: the settings row is read and the fee computed (line 133).
CreateFee(p) ==
    /\ req[p].pc = "cr_items"
    /\ Len(req[p].txItems) = Len(req[p].cart)
    /\ UNCHANGED << variants, settingsTable, secretKeys, outbox, outside >>
    /\ LET logistic_fee == calculate_logistic_fee(settingsTable, req[p].subtotal)
       IN
       IF ~logistic_fee.ok
       THEN /\ orders' = AtomicExit(FALSE, orders, req[p].pk :> req[p].order)
            /\ items' = AtomicExit(FALSE, items, req[p].pk :> req[p].txItems)
            /\ Respond(p, 500, [req[p] EXCEPT !.failed = "fee"])
       ELSE /\ UNCHANGED << orders, items >>
            /\ req' = [req EXCEPT ![p] =
                         [@ EXCEPT !.pc = "cr_save", !.fee = logistic_fee.v]]

\* Lines 134-138 of create, the end of the transaction, and lines 91-106 of
\* the view: serialize, email for pay_on_delivery, respond.
CreateSave(p) ==
    /\ req[p].pc = "cr_save"
    /\ UNCHANGED << variants, settingsTable, secretKeys, outside >>
    /\ \E outcome \in NotifierOutcomes :
         LET r       == req[p]
             total   == r.subtotal + r.fee
             row     == IF "logistic_price" \in OrderModelFields
                        THEN ("logistic_price" :> r.fee) @@
                             [r.order EXCEPT !.total_amount = total]
                        ELSE [r.order EXCEPT !.total_amount = total]
             saved   == SaveUpdateFieldsOk({"logistic_price", "total_amount"})
             emailed == /\ saved
                        /\ OrderSerializerOk
                        /\ r.order.payment_method = "pay_on_delivery"
             n       == Notify(outcome)
         IN
         /\ orders' = AtomicExit(saved, orders, r.pk :> row)
         /\ items' = AtomicExit(saved, items, r.pk :> r.txItems)
         /\ outbox' = IF emailed /\ n.delivered
                      THEN outbox \cup {[order_id |-> r.order.order_id,
                                         via |-> "creation", by |-> p]}
                      ELSE outbox
         /\ Respond(p,
                    IF saved /\ OrderSerializerOk /\ ~(emailed /\ n.propagated)
                    THEN 201 ELSE 500,
                    [r EXCEPT !.failed = IF ~saved THEN "save"
                                         ELSE IF ~OrderSerializerOk
                                         THEN "serialize" ELSE "none",
                              !.payment_required =
                                  /\ saved
                                  /\ OrderSerializerOk
                                  /\ PaymentRequired(r.order.payment_method),
                              !.mail = IF emailed THEN outcome ELSE "none"])

(***************************************************************************)
(* AdminOrderUpdateStatusView.put                                          *)
(***************************************************************************)
AdminStatusInputs ==
    [pk : {1, 9}, status : {"pending", "shipped", "cancelled", "refunded"}]

\* Lines 71-82: load by pk, validate the new status, set it on the instance.
AdminLoad(p) ==
    /\ Arrives(p)
    /\ UNCHANGED << orders, items, variants, settingsTable, secretKeys,
                    outbox, outside >>
    /\ \E data \in AdminStatusInputs :
         LET r0 == [req[p] EXCEPT !.kind = "admin_status"] IN
         IF data.pk \notin DOMAIN VisibleOrders THEN Respond(p, 404, r0)
         ELSE IF data.status \notin STATUS_CHOICES THEN Respond(p, 400, r0)
         ELSE req' = [req EXCEPT ![p] =
                        [r0 EXCEPT !.pc = "ad_save", !.pk = data.pk,
                           !.order = [VisibleOrders[data.pk] EXCEPT
                                        !.status = data.status]]]

\* Lines 83-86: order.save(), then the serialized order is returned.
AdminSave(p) ==
    /\ req[p].pc = "ad_save"
    /\ orders' = SaveRow(req[p].pk, req[p].order)
    /\ Respond(p, IF OrderSerializerOk THEN 200 ELSE 500, req[p])
    /\ UNCHANGED << items, variants, settingsTable, secretKeys,
                    outbox, outside >>

(***************************************************************************)
(* OrderTrackView.get                                                      *)
(***************************************************************************)

\* order.items.all() as a reader sees it.
VisibleItemsOf(k) == IF k \in DOMAIN items THEN items[k] ELSE << >>

\* Lines 115-126: one read of the order and its items.
OrderTrack(p) ==
    /\ Arrives(p)
    /\ UNCHANGED << orders, items, variants, settingsTable, secretKeys,
                    outbox, outside >>
    /\ \E oid \in OrderIdPool \cup {None} :
         LET r0 == [req[p] EXCEPT !.kind = "track", !.asked = oid]
             k  == PkOf(oid)
         IN
         IF oid = None THEN Respond(p, 400, r0)
         ELSE IF k = 0 THEN Respond(p, 404, r0)
         ELSE Respond(p, IF OrderSerializerOk THEN 200 ELSE 500,
                      [r0 EXCEPT !.pk = k,
                                 !.seen = [order_id |-> oid,
                                           total_amount |->
                                               VisibleOrders[k].total_amount,
                                           item_sum |->
                                               SumItems(VisibleItemsOf(k))]])

(***************************************************************************)
(* The public read endpoints: OrderDetailView.get, OrderTrackView.get and  *)
(* ProductDetailView.get.                                                  *)
(***************************************************************************)
\* Who sends an order-detail request: nobody signed in, or one of two users.
Callers == {None, "u1", "u2"}

\* The owner of the seeded order: a user, or no user (a guest order).
SeedOwners == {"u1", None}

\* A lookup by order id alone, whoever asks.
OrderDetailMatchUnscoped(caller, row, order_id) == row.order_id = order_id

\* orders/views.py lines 150-154: the filter of objects.get().
OrderDetailMatch(caller, row, order_id) ==
    /\ row.order_id = order_id
    /\ caller # None => row.user = caller

\* orders/views.py lines 147-159: one read of the order, then its serializer.
OrderDetail(p) ==
    /\ Arrives(p)
    /\ UNCHANGED << orders, items, variants, settingsTable, secretKeys,
                    outbox, outside >>
    /\ \E caller \in Callers, order_id \in OrderIdPool :
         LET r0   == [req[p] EXCEPT !.kind = "detail", !.caller = caller,
                                    !.asked = order_id]
             hits == { k \in DOMAIN VisibleOrders :
                         OrderDetailMatch(caller, VisibleOrders[k], order_id) }
         IN
         IF hits = {} THEN Respond(p, 404, r0)
         ELSE LET k == CHOOSE k \in hits : TRUE IN
              IF OrderSerializerOk
              THEN Respond(p, 200,
                           [r0 EXCEPT !.pk = k,
                                      !.seen = [order_id |-> order_id,
                                                total_amount |->
                                                  VisibleOrders[k].total_amount,
                                                item_sum |->
                                                  SumItems(VisibleItemsOf(k))]])
              ELSE Respond(p, 500, [r0 EXCEPT !.pk = k])

\* The slugs a product-detail request may name.
SlugPool == {"foam", "latex"}

\* products/views.py lines 213-214: ProductModel.objects.get(slug=slug) reads
\* the row, view_count with it, into the request's instance.
ProductDetailLoad(p) ==
    /\ Arrives(p)
    /\ UNCHANGED << orders, items, variants, settingsTable, secretKeys,
                    outbox, outside >>
    /\ \E slug \in SlugPool :
         LET r0 == [req[p] EXCEPT !.kind = "product_detail", !.slug = slug] IN
         IF slug \notin DOMAIN products THEN Respond(p, 404, r0)
         ELSE req' = [req EXCEPT ![p] =
                        [r0 EXCEPT !.pc = "pd_save",
                                   !.view_count = products[slug]]]

\* products/views.py lines 216-220: add one to the instance's view_count,
\* save the instance, answer with the serialized product.
ProductDetailSave(p) ==
    /\ req[p].pc = "pd_save"
    /\ products' = [products EXCEPT ![req[p].slug] = req[p].view_count + 1]
    /\ UNCHANGED << orders, items, variants, settingsTable, secretKeys,
                    outbox, pricing >>
    /\ Respond(p, 200, req[p])

\* The server starts with the seeded order owned by a user or by no one.
InitFront ==
    /\ \E owner \in SeedOwners :
          orders = (1 :> [SeedOrder EXCEPT !.user = owner])
    /\ items = [k \in DOMAIN SeedOrderTable |-> SeedItems]
    /\ variants = SeedVariants
    /\ \E d \in Deployments :
          /\ settingsTable = d.settings
          /\ secretKeys = d.keys
    /\ outbox = {}
    /\ req = [p \in Requests |-> IdleReq]
    /\ products = SeedProducts
    /\ pricing = NoPricing

NextFront ==
    \E p \in Requests :
        \/ OrderDetail(p)
        \/ OrderTrack(p)
        \/ ProductDetailLoad(p)
        \/ ProductDetailSave(p)

FrontSpec == InitFront /\ [][NextFront]_vars

(***************************************************************************)
(* The arithmetic of OrderCreateSerializer.create on one cart, amounts in  *)
(* tenths of a cent: quantity and price of each line, the subtotal, the    *)
(* fee and the rounded total (serializers.py:79-135).                      *)
(***************************************************************************)

\* Cart lines of a payload: any variant reference, quantity and price.
PricingLines ==
    { Line(v, q, pr, TRUE) :
        v \in {"A", "X"},
        q \in {Absent, Num(0), Num(0 - 2), Num(3)},
        pr \in {Absent, Num(125), Num(135), Num(0 - 50)} }

PricingCarts ==
    UNION { [1..n -> PricingLines] : n \in 1..MaxLines }

InitPricing ==
    /\ orders = SeedOrderTable
    /\ items = [k \in DOMAIN SeedOrderTable |-> SeedItems]
    /\ variants = SeedVariants
    /\ \E d \in Deployments :
          /\ settingsTable = d.settings
          /\ secretKeys = d.keys
    /\ outbox = {}
    /\ req = [p \in Requests |-> IdleReq]
    /\ products = SeedProducts
    /\ \E cart \in PricingCarts :
          pricing = [pc |-> "lines", cart |-> cart, stored |-> << >>,
                     subtotal |-> 0, fee |-> 0, total |-> 0]

\* One turn of the loop (serializers.py:81-130): quantity, price, the item
\* row and the subtotal.
PriceLine ==
    /\ pricing.pc = "lines"
    /\ Len(pricing.stored) < Len(pricing.cart)
    /\ LET item            == pricing.cart[Len(pricing.stored) + 1]
           product_variant == LookupVariant(item.product_variant)
           qty             == ItemQuantity(item.quantity)
           price           == ItemPrice(item.price, product_variant)
       IN  pricing' = [pricing EXCEPT
                         !.subtotal = @ + price * qty,
                         !.stored = Append(@, [price |-> price,
                                               quantity |-> qty])]
    /\ UNCHANGED << orders, items, variants, settingsTable, secretKeys,
                    outbox, req, products >>

\* Lines 133-135: the fee and the total, quantized to cents.
PriceTotal ==
    /\ pricing.pc = "lines"
    /\ Len(pricing.stored) = Len(pricing.cart)
    /\ LET logistic_fee == calculate_logistic_fee(settingsTable,
                                                  pricing.subtotal)
       IN  pricing' =
             IF ~logistic_fee.ok THEN [pricing EXCEPT !.pc = "failed"]
             ELSE [pricing EXCEPT
                     !.pc = "done",
                     !.fee = logistic_fee.v,
                     !.total = QuantizeCents(pricing.subtotal
                                             + logistic_fee.v)]
    /\ UNCHANGED << orders, items, variants, settingsTable, secretKeys,
                    outbox, req, products >>

NextPricing == PriceLine \/ PriceTotal

PricingSpec == InitPricing /\ [][NextPricing]_vars

(***************************************************************************)
(* AdminOrderDeleteView.delete                                             *)
(***************************************************************************)

\* A table without the row of key k.
WithoutRow(table, k) == [j \in DOMAIN table \ {k} |-> table[j]]

\* A delete that keeps the row and marks it cancelled.
OrdersAfterSoftDelete(table, k) == [table EXCEPT ![k].status = "cancelled"]

\* order.delete(): the row is removed from the table.
OrdersAfterDelete(table, k) == WithoutRow(table, k)

\* An order delete that leaves the item rows behind.
ItemsKeptOnOrderDelete(table, k) == table

\* OrderItemModel.order is on_delete=CASCADE: the items of order k are
\* deleted with it.
ItemsAfterOrderDelete(table, k) == WithoutRow(table, k)

\* Lines 98-104: load by pk and delete.
AdminOrderDelete(p) ==
    /\ Arrives(p)
    /\ UNCHANGED << variants, settingsTable, secretKeys, outbox, outside >>
    /\ \E pk \in {1, 9} :
         LET r0 == [req[p] EXCEPT !.kind = "admin_delete", !.pk = pk] IN
         IF pk \notin DOMAIN VisibleOrders
         THEN /\ UNCHANGED << orders, items >>
              /\ Respond(p, 404, r0)
         ELSE /\ orders' = OrdersAfterDelete(orders, pk)
              /\ items' = ItemsAfterOrderDelete(items, pk)
              /\ Respond(p, 200, r0)

(***************************************************************************)
(* AdminVariantDetailView.put / .delete (products/admin_views.py)          *)
(***************************************************************************)
VariantPutInputs == [pk : {"A", "Z"}, price : {Num(6000), Junk}]

\* Lines 252-262: partial update of a variant; the price must parse.
AdminVariantPut(p) ==
    /\ Arrives(p)
    /\ UNCHANGED << orders, items, settingsTable, secretKeys, outbox, outside >>
    /\ \E data \in VariantPutInputs :
         LET r0 == [req[p] EXCEPT !.kind = "variant_put", !.asked = data.pk] IN
         IF data.pk \notin DOMAIN variants
         THEN UNCHANGED variants /\ Respond(p, 404, r0)
         ELSE IF data.price.tag # "num"
         THEN UNCHANGED variants /\ Respond(p, 400, r0)
         ELSE /\ variants' = [variants EXCEPT ![data.pk] = data.price.v]
              /\ Respond(p, 200, r0)

\* Item rows that go when their variant is deleted.
ItemsCascadedWithVariant(its, v) ==
    SelectSeq(its, LAMBDA it : it.product_variant # v)

\* OrderItemModel.product_variant is on_delete=SET_NULL: the items bought
\* from variant v stay and lose the reference.
ItemsAfterVariantDelete(its, v) ==
    [i \in DOMAIN its |->
        IF its[i].product_variant = v
        THEN [its[i] EXCEPT !.product_variant = None]
        ELSE its[i]]

\* Lines 264-270: load the variant and delete it.
AdminVariantDelete(p) ==
    /\ Arrives(p)
    /\ UNCHANGED << orders, settingsTable, secretKeys, outbox, outside >>
    /\ \E pk \in {"A", "Z"} :
         LET r0 == [req[p] EXCEPT !.kind = "variant_delete", !.asked = pk] IN
         IF pk \notin DOMAIN variants
         THEN /\ UNCHANGED << variants, items >>
              /\ Respond(p, 404, r0)
         ELSE /\ variants' = WithoutRow(variants, pk)
              /\ items' = [k \in DOMAIN items |->
                             ItemsAfterVariantDelete(items[k], pk)]
              /\ Respond(p, 200, r0)

(***************************************************************************)
(* AdminSettingsView.put (site_config/admin_views.py)                      *)
(***************************************************************************)
SettingsPutInputs == { [free_shipping_threshold |-> 20000] }

\* Lines 66-67: SettingsModel.objects.first() and the choice it decides.
SettingsPutLoad(p) ==
    /\ Arrives(p)
    /\ UNCHANGED << orders, items, variants, settingsTable, secretKeys,
                    outbox, outside >>
    /\ req' = [req EXCEPT ![p] =
                 [@ EXCEPT !.kind = "settings_put",
                           !.pc = IF SettingsFirst(settingsTable) = << >>
                                  THEN "st_create" ELSE "st_update"]]

\* The guard of SettingsModel.save (site_config/models.py:39-42): a row
\* without a pk is refused when the table already has a row.
SettingsSaveAllowed(table, has_pk) == has_pk \/ table = << >>

\* Line 69, up to the insert: objects.create() calls SettingsModel.save,
\* whose guard asks the table; its ValueError is answered 400 (line 79).
SettingsPutCheck(p) ==
    /\ req[p].pc = "st_create"
    /\ UNCHANGED << orders, items, variants, settingsTable, secretKeys,
                    outbox, outside >>
    /\ IF SettingsSaveAllowed(settingsTable, FALSE)
       THEN req' = [req EXCEPT ![p] = [@ EXCEPT !.pc = "st_insert"]]
       ELSE Respond(p, 400, req[p])

\* Lines 68-77: insert the row when none was found, else save the update
\* of the row that was found.
SettingsPutSave(p) ==
    /\ req[p].pc \in {"st_insert", "st_update"}
    /\ UNCHANGED << orders, items, variants, secretKeys, outbox, outside >>
    /\ \E data \in SettingsPutInputs :
         IF req[p].pc = "st_insert"
         THEN /\ settingsTable' = Append(settingsTable, data)
              /\ Respond(p, 201, req[p])
         ELSE /\ settingsTable' =
                    IF settingsTable = << >> THEN << data >>
                    ELSE << data >> \o Tail(settingsTable)
              /\ Respond(p, 200, req[p])

Next ==
    \E p \in Requests :
        \/ CreateBegin(p)
        \/ CreateItem(p)
        \/ CreateFee(p)
        \/ CreateSave(p)
        \/ CallbackLoad(p)
        \/ CallbackVerify(p)
        \/ CallbackMark(p)
        \/ CallbackEmail(p)
        \/ AdminLoad(p)
        \/ AdminSave(p)
        \/ OrderTrack(p)

Spec == Init /\ [][Next]_vars

\* The order flow together with the back-office operations on orders, the
\* catalog and the settings.
NextStore ==
    \/ Next
    \/ \E p \in Requests :
          \/ AdminOrderDelete(p)
          \/ AdminVariantPut(p)
          \/ AdminVariantDelete(p)
          \/ SettingsPutLoad(p)
          \/ SettingsPutCheck(p)
          \/ SettingsPutSave(p)

StoreSpec == Init /\ [][NextStore]_vars

(***************************************************************************)
(* Properties.                                                             *)
(***************************************************************************)

IsCallback(r) == r.kind = "callback"

IsCreate(r) == r.kind = "create"

\* Callbacks that went on to mark order k paid.
MarkingCallbacks(k) ==
    { p \in Requests : /\ IsCallback(req[p])
                       /\ req[p].pk = k
                       /\ req[p].pc \in {"cb_mark", "cb_email"} }

\* Callbacks that have marked order k paid and answered.
FinishedMarkers(k) ==
    { q \in Requests : /\ IsCallback(req[q])
                       /\ req[q].pc = "done"
                       /\ req[q].marked
                       /\ req[q].pk = k }

\* The amount a provider reports for a fully paid order, in its own unit.
ProviderUnits(provider, total_amount) ==
    IF provider = "paystack" THEN total_amount * 100 ELSE total_amount

\* C1: once an earlier callback has marked an order paid and answered, a
\* later callback that loads this order answers 200 at once: it does not go
\* on to set the paid fields, save or send the confirmation email again.
C1_RepeatCallbackShortCircuits ==
    [][ \A p \in Requests :
          ( /\ req[p].pc = "idle"
            /\ IsCallback(req'[p])
            /\ req'[p].pk # 0
            /\ FinishedMarkers(req'[p].pk) # {} )
          => ( /\ req'[p].pc = "done"
               /\ req'[p].resp = 200
               /\ ~req'[p].marked ) ]_vars

\* C2: of the payment callbacks running at one time for the same order, at
\* most one is past the already-paid check and on its way to mark the
\* order paid and send the email.
C2_OneCallbackPastCheck ==
    \A k \in DOMAIN orders : Cardinality(MarkingCallbacks(k)) <= 1

\* C3: every committed order carries a logistic_price and its total_amount
\* is the sum of its items' price * quantity plus that logistic_price.
C3_TotalIsItemsPlusLogistic ==
    \A k \in DOMAIN orders :
        /\ "logistic_price" \in DOMAIN orders[k]
        /\ k \in DOMAIN items
        /\ orders[k].total_amount =
               SumItems(items[k]) + orders[k].logistic_price

\* C4: with a settings row present, the fee computed at order creation never
\* fails to compute, is 0 when subtotal >= free-shipping threshold and is
\* the configured flat shipping fee otherwise.
C4_FeeFollowsThreshold ==
    \A p \in Requests :
        (IsCreate(req[p]) /\ settingsTable # << >>) =>
            /\ req[p].failed # "fee"
            /\ req[p].pc = "cr_save" =>
                 req[p].fee =
                   IF req[p].subtotal >=
                        Head(settingsTable).free_shipping_threshold
                   THEN 0
                   ELSE GetAttr(Head(settingsTable), "shipping_fee", 0)

\* C5 as stated: whenever the variant lookup of a cart line succeeds, the
\* unit price stored on the item is the catalog variant's price.
C5_CatalogPriceWins ==
    \A p \in Requests :
        \A i \in 1..Len(req[p].txItems) :
            req[p].txItems[i].product_variant # None =>
                req[p].txItems[i].price =
                    VariantPrice[req[p].txItems[i].product_variant]

\* C5 amended: the unit price stored on the item and added to the subtotal
\* is the payload's price whenever the payload carries one that parses;
\* otherwise the catalog variant's price when the lookup succeeds; zero
\* when neither is available.
C5_PayloadPriceWins ==
    \A p \in Requests :
        /\ req[p].subtotal = SumItems(req[p].txItems)
        /\ \A i \in 1..Len(req[p].txItems) :
             LET line == req[p].cart[i]
                 it   == req[p].txItems[i]
             IN  it.price =
                   IF line.price.tag = "num" THEN line.price.v
                   ELSE IF line.product_variant \in VariantIds
                   THEN VariantPrice[line.product_variant]
                   ELSE 0

\* C5 witness: a line whose variant exists was stored with the payload's
\* price, which differs from the catalog price.
C5_Witness ==
    \E p \in Requests :
        \E i \in 1..Len(req[p].txItems) :
            /\ req[p].cart[i].product_variant \in VariantIds
            /\ req[p].cart[i].price.tag = "num"
            /\ req[p].txItems[i].price = req[p].cart[i].price.v
            /\ req[p].txItems[i].price #
                   VariantPrice[req[p].cart[i].product_variant]

\* C6: a creation that fails after its order row was inserted (item insert,
\* fee lookup or final total update) answers 500 and leaves no order row
\* and no item row; one that does not fail answers 201 with the order row,
\* all its items and the final total committed.
C6_CreateIsAtomic ==
    \A p \in Requests :
        (IsCreate(req[p]) /\ req[p].pc = "done") =>
            /\ req[p].failed \in {"item", "fee", "save"} =>
                 /\ req[p].resp = 500
                 /\ NewPk(p) \notin DOMAIN orders
                 /\ NewPk(p) \notin DOMAIN items
            /\ req[p].failed = "none" =>
                 /\ req[p].resp = 201
                 /\ NewPk(p) \in DOMAIN orders
                 /\ NewPk(p) \in DOMAIN items
                 /\ orders[NewPk(p)].total_amount >= SumItems(items[NewPk(p)])

\* C6 witness: a creation failed on an item insert, after the order row and
\* an earlier item had been written, and answered 500.
C6_Witness ==
    \E p \in Requests :
        /\ IsCreate(req[p])
        /\ req[p].pc = "done"
        /\ req[p].failed = "item"
        /\ req[p].resp = 500

\* C7: a request that loads an order (track, payment callback, admin status
\* update) never gets the row of a creation whose transaction is still
\* open, so it never sees the temporary total or a partial item list.
C7_NoReadOfOpenCreation ==
    [][ \A p \in Requests :
          ( /\ req[p].pc = "idle"
            /\ req'[p].kind \in {"track", "callback", "admin_status"} )
          => \A q \in Requests :
               InFlightCreate(q) => req'[p].pk # req[q].pk ]_vars

\* C7 witness: while a creation holds its order row and an item in its open
\* transaction, a tracking request for that order id has answered 404.
C7_Witness ==
    \E p, q \in Requests :
        /\ q < p
        /\ InFlightCreate(q)
        /\ req[q].txItems # << >>
        /\ req[p].kind = "track"
        /\ req[p].pc = "done"
        /\ req[p].asked = req[q].order.order_id
        /\ req[p].resp = 404

\* C8: on the provider-verified path a callback marks the order paid only
\* when the gateway reports success and the reported amount, in the
\* provider's unit, equals the stored total; a success with another amount
\* is answered 400 and the request writes nothing.
C8_VerifiedAmountGatesMarking ==
    \A p \in Requests :
        (IsCallback(req[p]) /\ req[p].path = "provider") =>
            LET expected ==
                  ProviderUnits(req[p].provider, orders[req[p].pk].total_amount)
            IN
            /\ (req[p].pc \in {"cb_mark", "cb_email"} \/ req[p].marked) =>
                 /\ req[p].reply.kind = "success"
                 /\ req[p].reply.amount = expected
            /\ ( /\ req[p].pc = "done"
                 /\ req[p].reply.kind = "success"
                 /\ req[p].reply.amount # expected ) =>
                 /\ req[p].resp = 400
                 /\ ~req[p].marked

\* C8 witness: one verified callback was refused for an amount mismatch and
\* another marked the order after a matching amount.
C8_Witness ==
    \E p, q \in Requests :
        /\ IsCallback(req[p]) /\ req[p].path = "provider"
        /\ req[p].pc = "done" /\ req[p].resp = 400
        /\ req[p].reply.kind = "success"
        /\ IsCallback(req[q]) /\ req[q].path = "provider"
        /\ req[q].pc = "done" /\ req[q].resp = 200 /\ req[q].marked

\* C9: when a callback that marked the order answers success, the persisted
\* order has the paid flag set, a paid timestamp, the gateway reference
\* stored and status 'processing'.
C9_PaidStatePersisted ==
    [][ \A p \in Requests :
          ( /\ req[p].pc = "cb_email"
            /\ req'[p].pc = "done"
            /\ req'[p].resp = 200 )
          => LET o == orders'[req[p].pk] IN
             /\ GetAttr(o, "is_paid", FALSE) = TRUE
             /\ "paid_at" \in DOMAIN o
             /\ "payment_reference" \in DOMAIN o
             /\ o.status = "processing" ]_vars

\* C10: whatever the notifier does, the email step of a payment callback
\* answers 200 and leaves the orders as saved, and the email step of a
\* creation answers 201 with the order committed.
C10_NotifierNeverChangesOutcome ==
    [][ \A p \in Requests :
          /\ (req[p].pc = "cb_email" /\ req'[p].pc = "done") =>
                /\ req'[p].resp = 200
                /\ orders' = orders
          /\ (req[p].pc = "cr_save" /\ req'[p].mail # "none") =>
                /\ req'[p].resp = 201
                /\ NewPk(p) \in DOMAIN orders' ]_vars

\* C10 witness: the notifier raised in a payment callback that had marked
\* the order; the callback answered 200 and the order is as it was saved.
C10_Witness ==
    \E p \in Requests :
        /\ IsCallback(req[p])
        /\ req[p].pc = "done"
        /\ req[p].marked
        /\ req[p].mail = "raises"
        /\ req[p].resp = 200
        /\ orders[req[p].pk].status = "processing"

\* C11: a creation whose payment method is not pay_on_delivery or online, or
\* that lacks a required contact field, never gets past validation to the
\* insert of the order row; it answers 400 and leaves no order row, no item
\* row and no email.
C11_InvalidCreateRejected ==
    \A p \in Requests :
        IsCreate(req[p]) =>
            /\ InFlightCreate(p) =>
                 /\ req[p].order.payment_method \in PAYMENT_CHOICES
                 /\ RequiredContactFields \subseteq req[p].contact
            /\ (req[p].pc = "done" /\ req[p].failed = "validate") =>
                 /\ req[p].resp = 400
                 /\ NewPk(p) \notin DOMAIN orders
                 /\ NewPk(p) \notin DOMAIN items
                 /\ \A m \in outbox : m.by # p

\* C11 witness: one creation was rejected for its payment method and another
\* for a missing email address, both with 400.
C11_Witness ==
    \E p, q \in Requests :
        /\ IsCreate(req[p]) /\ req[p].pc = "done" /\ req[p].resp = 400
        /\ req[p].errors = {"payment_method"}
        /\ IsCreate(req[q]) /\ req[q].pc = "done" /\ req[q].resp = 400
        /\ req[q].errors = {"customer_email"}

\* C12: a payment callback that resolves no order answers 404 when it named
\* an order_id or a reference and 400 when it named neither, and marks
\* nothing.
C12_UnknownOrderIs404 ==
    \A p \in Requests :
        (IsCallback(req[p]) /\ req[p].pc = "done" /\ req[p].pk = 0) =>
            /\ req[p].resp \in {400, 404}
            /\ req[p].asked # None => req[p].resp = 404
            /\ ~req[p].marked

\* C13: when the provider's verify call fails upstream, the callback
\* answers 502 and writes nothing: orders, items and sent emails are as
\* they were and the request has marked nothing, so the same callback can
\* be sent again.
C13_UpstreamFailureIs502 ==
    [][ \A p \in Requests :
          (req[p].pc = "cb_verify" /\ req'[p].reply.kind = "error") =>
              /\ req'[p].pc = "done"
              /\ req'[p].resp = 502
              /\ ~req'[p].marked
              /\ orders' = orders
              /\ items' = items
              /\ outbox' = outbox ]_vars

\* C13 witness: a callback was answered 502 after a gateway failure and a
\* later callback for the same order was verified, marked it and answered
\* 200.
C13_Witness ==
    \E p, q \in Requests :
        /\ p < q
        /\ IsCallback(req[p]) /\ req[p].pc = "done" /\ req[p].resp = 502
        /\ req[p].reply.kind = "error"
        /\ IsCallback(req[q]) /\ req[q].pc = "done" /\ req[q].resp = 200
        /\ req[q].pk = req[p].pk
        /\ req[q].path = "provider" /\ req[q].marked
        /\ orders[req[q].pk].status = "processing"

\* C14: a callback that finds its order and takes neither the trusted path
\* nor a provider path answers 400 at once and writes nothing; a provider
\* path is only taken with a named provider whose secret key is configured
\* and with a reference.
C14_NoPathIsCannotVerify ==
    [][ \A p \in Requests :
          ( /\ req[p].pc = "idle"
            /\ IsCallback(req'[p])
            /\ req'[p].pk # 0 )
          => /\ req'[p].path = "none" =>
                  /\ req'[p].pc = "done"
                  /\ req'[p].resp = 400
                  /\ ~req'[p].marked
                  /\ orders' = orders
                  /\ outbox' = outbox
             /\ req'[p].path = "provider" =>
                  /\ req'[p].provider \in {"paystack", "flutterwave"}
                  /\ req'[p].provider \in secretKeys
                  /\ req'[p].ref \notin {None, ""} ]_vars

\* C14 witness: with no provider secret configured, a callback for the
\* existing order was answered 400 and the order is as it was.
C14_Witness ==
    \E p \in Requests :
        /\ secretKeys = {}
        /\ IsCallback(req[p]) /\ req[p].pc = "done"
        /\ req[p].pk # 0 /\ req[p].path = "none"
        /\ req[p].resp = 400
        /\ orders[req[p].pk] = SeedOrder
        /\ outbox = {}

\* C15: an order a payment callback has marked paid and answered success
\* for is paid ever after: it passes the view's already-paid test or, at
\* the least, keeps a status other than the 'pending' of an unpaid order.
C15_PaidStaysPaid ==
    \A k \in DOMAIN orders :
        FinishedMarkers(k) # {} =>
            \/ AlreadyPaid(orders[k])
            \/ orders[k].status # "pending"

\* Position of a status in the chain pending -> ... -> delivered.
StatusRank == [pending |-> 0, processing |-> 1, shipped |-> 2, delivered |-> 3]

\* A status change the chain allows: a later status of the chain, or
\* cancelled, and nothing out of delivered or cancelled.
StatusMoveAllowed(old, new) ==
    \/ old = new
    \/ /\ old \notin {"delivered", "cancelled"}
       /\ \/ new = "cancelled"
          \/ new # "cancelled" /\ StatusRank[new] > StatusRank[old]

\* C16: every step leaves the status of every order where it was or moves
\* it forward along pending -> processing -> shipped -> delivered or to
\* cancelled.
C16_StatusOnlyForward ==
    [][ \A k \in DOMAIN orders \cap DOMAIN orders' :
          StatusMoveAllowed(orders[k].status, orders'[k].status) ]_vars

\* The step is the save of a payment callback or of an admin status update
\* for order k.
StatusWritingStep(k) ==
    \E p \in Requests :
        /\ req[p].pk = k
        /\ \/ req[p].pc = "cb_mark" /\ req'[p].pc = "cb_email"
           \/ req[p].pc = "ad_save" /\ req'[p].pc = "done"

\* C17: a step that changes the status or the paid state of an order that
\* exists before and after it is the save of a payment callback or of an
\* admin status update for that order; creations, lookups, catalog and
\* settings operations change neither.
C17_StatusFrame ==
    [][ \A k \in DOMAIN orders \cap DOMAIN orders' :
          ( \/ orders'[k].status # orders[k].status
            \/ AlreadyPaid(orders'[k]) # AlreadyPaid(orders[k]) )
          => StatusWritingStep(k) ]_vars

\* C17 witness: a creation, a catalog or a settings operation has finished
\* next to an order whose status a callback or an admin update has changed.
C17_Witness ==
    \E p, q \in Requests :
        /\ req[p].kind \in {"create", "variant_put", "variant_delete",
                            "settings_put", "track"}
        /\ req[p].pc = "done"
        /\ req[q].kind \in {"callback", "admin_status"}
        /\ req[q].pc = "done"
        /\ req[q].pk \in DOMAIN orders
        /\ orders[req[q].pk].status # SeedOrder.status

\* The item rows of an order without their catalog reference.
ItemSnapshots(its) ==
    [i \in DOMAIN its |->
        [product_name |-> its[i].product_name, size |-> its[i].size,
         price |-> its[i].price, quantity |-> its[i].quantity]]

\* C18: item rows always belong to an order that exists, and a step leaves
\* an order that exists before and after it with the same item rows: none
\* added, none removed.
C18_ItemsFixedWithOrder ==
    [][ /\ DOMAIN items \subseteq DOMAIN orders
        /\ DOMAIN items' \subseteq DOMAIN orders'
        /\ \A k \in DOMAIN orders \cap DOMAIN orders' :
             /\ k \in DOMAIN items <=> k \in DOMAIN items'
             /\ k \in DOMAIN items =>
                  ItemSnapshots(items'[k]) = ItemSnapshots(items[k]) ]_vars

\* C18 witness: an admin delete removed the order and its items went with
\* it.
C18_Witness ==
    \E p \in Requests :
        /\ req[p].kind = "admin_delete"
        /\ req[p].pc = "done" /\ req[p].resp = 200
        /\ req[p].pk \notin DOMAIN orders
        /\ req[p].pk \notin DOMAIN items

\* C19: a step that changes the catalog (a variant's price, or a variant
\* deleted) leaves every order row, and with it total_amount, unchanged and
\* leaves every item's stored name, size, price and quantity unchanged.
C19_ItemsAreSnapshots ==
    [][ variants' # variants =>
          /\ orders' = orders
          /\ DOMAIN items' = DOMAIN items
          /\ \A k \in DOMAIN items :
               ItemSnapshots(items'[k]) = ItemSnapshots(items[k]) ]_vars

\* C19 witness: the variant of the first item of the seeded order was
\* deleted after its price had been changed; the item keeps its price and
\* quantity and the order its total.
C19_Witness ==
    \E p, q \in Requests :
        /\ req[p].kind = "variant_put" /\ req[p].pc = "done"
        /\ req[p].resp = 200 /\ req[p].asked = "A"
        /\ req[q].kind = "variant_delete" /\ req[q].pc = "done"
        /\ req[q].resp = 200 /\ req[q].asked = "A"
        /\ 1 \in DOMAIN items
        /\ items[1][1].product_variant = None
        /\ items[1][1].price = SeedItems[1].price
        /\ items[1][1].quantity = SeedItems[1].quantity
        /\ orders[1].total_amount = SeedOrder.total_amount

\* Order ids are generated and unique: no committed order has an empty id,
\* no two committed orders share one, and no creation holds a row whose id
\* is that of a committed order or of another open creation.
UniqueOrderIds ==
    /\ \A k \in DOMAIN orders : orders[k].order_id \notin {None, ""}
    /\ \A j, k \in DOMAIN orders :
         j # k => orders[j].order_id # orders[k].order_id
    /\ \A p \in Requests :
         InFlightCreate(p) =>
             /\ req[p].order.order_id \in OrderIdPool
             /\ \A k \in DOMAIN orders :
                  orders[k].order_id # req[p].order.order_id
             /\ \A q \in Requests \ {p} :
                  InFlightCreate(q) =>
                      req[q].order.order_id # req[p].order.order_id

\* C20: order ids stay unique through every step, and a creation whose
\* generated id is that of an existing order fails on the insert with 500
\* and leaves every order and item row as it was.
C20_OrderIdsUnique ==
    [][ /\ UniqueOrderIds
        /\ UniqueOrderIds'
        /\ \A p \in Requests :
             ( /\ req[p].pc = "idle"
               /\ IsCreate(req'[p])
               /\ req'[p].failed = "insert" )
             => /\ req'[p].resp = 500
                /\ orders' = orders
                /\ items' = items ]_vars

\* C20 witness: a creation drew the id of the existing order, failed on
\* the insert with 500, and the existing order is as it was.
C20_Witness ==
    \E p \in Requests :
        /\ IsCreate(req[p]) /\ req[p].pc = "done"
        /\ req[p].failed = "insert" /\ req[p].resp = 500
        /\ orders = SeedOrderTable
        /\ items[1] = SeedItems

C22_TotalRoundsHalfUp ==
    LET sum == pricing.subtotal + pricing.fee IN
    (pricing.pc = "done" /\ sum >= 0 /\ sum % 10 = 5)
        => pricing.total = sum \div 10 + 1

\* C23: on the provider path the order is saved only after the gateway's
\* answer has come and reports success; while the verify call is in flight
\* the request has written nothing and holds no open transaction.
C23_VerifyBeforeCommit ==
    \A p \in Requests :
        (IsCallback(req[p]) /\ req[p].path = "provider") =>
            /\ req[p].pc = "cb_verify" =>
                 /\ ~req[p].marked
                 /\ req[p].reply = NoReply
                 /\ ~InFlightCreate(p)
            /\ (req[p].pc \in {"cb_mark", "cb_email"} \/ req[p].marked) =>
                 req[p].reply.kind = "success"

\* C23 witness: while one callback waits for the gateway, another request
\* has saved the same order: the row differs from the one the waiting
\* callback loaded.
C23_Witness ==
    \E p \in Requests :
        /\ IsCallback(req[p]) /\ req[p].path = "provider"
        /\ req[p].pc = "cb_verify"
        /\ req[p].pk \in DOMAIN orders
        /\ orders[req[p].pk] # req[p].order

\* C24: the settings table holds at most one row in every state.
C24_SettingsSingleton == Len(settingsTable) <= 1

\* C27: the save of a payment callback leaves the status of an order that is
\* shipped, delivered or cancelled as it is: only a pending order is moved
\* to 'processing'.
C27_CallbackOnlyFromPending ==
    [][ \A p \in Requests :
          ( /\ req[p].pc = "cb_mark" /\ req'[p].pc = "cb_email"
            /\ req[p].pk \in DOMAIN orders
            /\ orders[req[p].pk].status \in {"shipped", "delivered", "cancelled"} ) =>
              orders'[req[p].pk].status = orders[req[p].pk].status ]_vars

\* C29: every item stored for a cart has a quantity of at least one and a
\* price that is not negative, and the total computed from them is not
\* negative.
C29_ItemsWellFormed ==
    pricing.pc # "none" =>
        /\ \A i \in 1..Len(pricing.stored) :
              /\ pricing.stored[i].quantity >= 1
              /\ pricing.stored[i].price >= 0
        /\ pricing.pc = "done" => pricing.total >= 0

\* C28: a request that is saving or has saved an order as paid is a payment
\* callback that carries the trusted success flag, or one that named a
\* provider whose secret key is configured and got a verification reply of
\* success with the amount of the stored total; every request that marked
\* an order is a callback on one of these two paths that was not refused,
\* and an order that passes the already-paid test was marked by one.
C28_PaidOnlyByTwoPaths ==
    /\ \A p \in Requests :
          req[p].pc \in {"cb_mark", "cb_email"} =>
              /\ IsCallback(req[p])
              /\ \/ req[p].status_input = "success"
                 \/ /\ req[p].provider \in {"paystack", "flutterwave"}
                    /\ req[p].provider \in secretKeys
                    /\ req[p].reply.kind = "success"
                    /\ req[p].reply.amount =
                         ProviderUnits(req[p].provider,
                                       req[p].order.total_amount)
    /\ \A p \in Requests :
          req[p].marked =>
              /\ IsCallback(req[p])
              /\ req[p].path \in {"trusted", "provider"}
              /\ req[p].path = "provider" => req[p].reply.kind = "success"
              /\ req[p].pc = "done" => req[p].resp \in {200, 500}
    /\ \A k \in DOMAIN orders :
          AlreadyPaid(orders[k]) =>
              \E p \in Requests : req[p].marked /\ req[p].pk = k

\* C28 witness: one callback marked the order on the trusted flag and
\* answered, and another has saved it after a verified success.
C28_Witness ==
    \E p, q \in Requests :
        /\ IsCallback(req[p]) /\ req[p].pc = "done" /\ req[p].marked
        /\ req[p].path = "trusted"
        /\ IsCallback(req[q]) /\ req[q].pc = "cb_email" /\ req[q].marked
        /\ req[q].path = "provider"

\* C26: a confirmation email is sent only by the last step of a creation or
\* of a payment callback.  At creation it is sent for a pay_on_delivery
\* order only, in the step that leaves the order committed with its final
\* total; a payment callback sends it only after its own save stored the
\* order as paid, the save being a step before the email step.
C26_EmailAfterCommit ==
    [][ /\ \A m \in outbox' \ outbox :
              \/ /\ m.via = "creation"
                 /\ req[m.by].pc = "cr_save"
                 /\ req[m.by].order.payment_method = "pay_on_delivery"
                 /\ NewPk(m.by) \in DOMAIN orders'
                 /\ orders'[NewPk(m.by)].total_amount =
                      req[m.by].subtotal + req[m.by].fee
              \/ /\ m.via = "payment"
                 /\ IsCallback(req[m.by])
                 /\ req[m.by].pc = "cb_email"
                 /\ req[m.by].marked
        /\ \A p \in Requests :
              (req[p].pc = "cb_mark" /\ req'[p].pc = "cb_email") =>
                  /\ req'[p].marked
                  /\ req[p].pk \in DOMAIN orders'
                  /\ orders'[req[p].pk] = req'[p].order
                  /\ orders'[req[p].pk].status = "processing"
                  /\ outbox' = outbox
        /\ \A p \in Requests :
              req'[p].pc = "cb_email" => req[p].pc \in {"cb_mark", "cb_email"} ]_vars

\* C26 witness: the only email sent is the one of a payment callback for
\* the online order, which had saved the order before.
C26_Witness ==
    /\ outbox # {}
    /\ \A m \in outbox :
          /\ m.via = "payment"
          /\ req[m.by].pc = "done" /\ req[m.by].marked
          /\ m.order_id = "MM100001"
          /\ orders[1].payment_method = "online"

\* Orders a signed-in caller may see under an order id: the caller's own.
OwnedBy(caller, order_id) ==
    { k \in DOMAIN orders :
        orders[k].order_id = order_id /\ orders[k].user = caller }

\* C25: an order-detail request by a signed-in caller who does not own an
\* order of the id asked for, the order belonging to another user or to no
\* user, is answered 404 and sees nothing; a request by nobody signed in is
\* answered 404 exactly when no order has the id.
C25_DetailScopedToOwner ==
    \A p \in Requests :
        (req[p].kind = "detail" /\ req[p].pc = "done") =>
            /\ (req[p].caller # None /\ OwnedBy(req[p].caller, req[p].asked) = {}) =>
                  /\ req[p].resp = 404
                  /\ req[p].seen = NoRow
                  /\ req[p].pk = 0
            /\ req[p].caller = None =>
                  (req[p].resp = 404 <=>
                     ~\E k \in DOMAIN orders : orders[k].order_id = req[p].asked)

\* C25 witness: a signed-in user asked for an existing order that is not
\* theirs and got 404, and a request by nobody signed in for the same
\* order id found the order.
C25_Witness ==
    \E p, q \in Requests :
        /\ req[p].kind = "detail" /\ req[p].pc = "done"
        /\ req[p].caller # None
        /\ \E k \in DOMAIN orders :
              orders[k].order_id = req[p].asked /\ orders[k].user # req[p].caller
        /\ req[p].resp = 404
        /\ req[q].kind = "detail" /\ req[q].pc = "done"
        /\ req[q].caller = None /\ req[q].asked = req[p].asked
        /\ req[q].resp # 404 /\ req[q].pk # 0

\* C30: when no product-detail request is between its read and its save,
\* the view_count of every product is the number of product-detail requests
\* answered 200 for it.
C30_ViewCountExact ==
    (\A p \in Requests : req[p].pc # "pd_save") =>
        \A slug \in DOMAIN products :
            products[slug] =
                Cardinality({ p \in Requests :
                                /\ req[p].kind = "product_detail"
                                /\ req[p].pc = "done"
                                /\ req[p].resp = 200
                                /\ req[p].slug = slug })

====
